---- MODULE Spec2Model ----
(***************************************************************************)
(* Holiday Hand Magic: the shape catalog of App, its asynchronous shape    *)
(* requests, the camera with its motion signal and gesture requests, the   *)
(* shape generators, and the MagicParticles particle set with its          *)
(* per-frame integrator.                                                   *)
(*                                                                         *)
(* Units.  Coordinates, velocities and colour channels are fixed-point     *)
(* thousandths (1000 = 1.0); delta and the clock are milliseconds; angles  *)
(* are milliradians.  Products are divided back after every factor, with   *)
(* truncation toward zero.                                                 *)
(***************************************************************************)
EXTENDS Integers, Sequences, FiniteSets, TLC

(***************************************************************************)
(* Bounds of the model                                                     *)
(***************************************************************************)
\* particle budget (the source uses 6000)
PARTICLE_COUNT == 3
\* shape requests started in one run
MaxRequests == 2
\* integrator ticks in one run of MagicParticles alone
MaxTicks == 2
\* integrator ticks in one run of the whole App
MaxFrameTicks == 1
\* shape requests in one run of the whole App with its frame loop
MaxFrameRequests == 1
\* repetitions of next();previous() composed in the round-trip law
MaxRepeat == 3
\* the generators are called with counts -MaxGenCount..MaxGenCount
MaxGenCount == 8
\* integrator ticks in one run of the spring on its own
MaxSpringTicks == 16
\* detectGesture calls pending at once
MaxGestures == 2

(***************************************************************************)
(* Program constants                                                       *)
(***************************************************************************)
\* DEFAULT_SHAPES.length
NumShapes == 7
\* motionIntensity > 0.25, in hundredths
MotionThreshold == 25
\* if (diff > 20) diffScore++, on the green channel
DiffThreshold == 20
\* k = 4.0
SpringK == 4
\* swirlSpeed = 5.0
SwirlSpeed == 5
\* noiseAmp = 0.02, in thousandths
NoiseAmp == 20

(***************************************************************************)
(* Arithmetic helpers                                                      *)
(***************************************************************************)
\* JavaScript %: the remainder takes the sign of the dividend
JsRem(a, b) == IF a >= 0 THEN a % b ELSE -((-a) % b)

\* division truncating toward zero
Quot(a, b) == IF a >= 0 THEN a \div b ELSE -((-a) \div b)

NULL == [null |-> TRUE]
Some(v) == [some |-> v]

\* String.prototype.trim on a string held as a sequence of characters
RECURSIVE TrimLeft(_)
TrimLeft(s) == IF s # <<>> /\ Head(s) = " " THEN TrimLeft(Tail(s)) ELSE s
RECURSIVE TrimRight(_)
TrimRight(s) ==
  IF s # <<>> /\ s[Len(s)] = " " THEN TrimRight(SubSeq(s, 1, Len(s) - 1)) ELSE s
Trim(s) == TrimRight(TrimLeft(s))

(***************************************************************************)
(* The vision service                                                      *)
(***************************************************************************)
LowerCase == <<"a", "b", "c", "d", "e", "f", "g", "h", "i", "j", "k", "l", "m",
               "n", "o", "p", "q", "r", "s", "t", "u", "v", "w", "x", "y", "z">>
UpperCase == <<"A", "B", "C", "D", "E", "F", "G", "H", "I", "J", "K", "L", "M",
               "N", "O", "P", "Q", "R", "S", "T", "U", "V", "W", "X", "Y", "Z">>

\* String.prototype.toUpperCase on a string held as a sequence of characters
toUpperCase(s) ==
  [i \in 1..Len(s) |->
     IF \E k \in DOMAIN LowerCase : LowerCase[k] = s[i]
       THEN UpperCase[CHOOSE k \in DOMAIN LowerCase : LowerCase[k] = s[i]]
       ELSE s[i]]

\* String.prototype.includes
Includes(s, word) ==
  \E i \in 1..(Len(s) - Len(word) + 1) : SubSeq(s, i, i + Len(word) - 1) = word

\* texts the vision model may answer: "OPEN_HAND", "fist", " Pointing_Up ",
\* "  ", "palm"
VisionTexts ==
  {<<"O", "P", "E", "N", "_", "H", "A", "N", "D">>,
   <<"f", "i", "s", "t">>,
   <<" ", "P", "o", "i", "n", "t", "i", "n", "g", "_", "U", "p", " ">>,
   <<" ", " ">>,
   <<"p", "a", "l", "m">>}

\* answers of the service: a thrown error (no connection, 429), a response
\* without text, a response with a text
VisionAnswers ==
  {[kind |-> "throw", text |-> <<>>], [kind |-> "notext", text |-> <<>>]}
  \cup {[kind |-> "text", text |-> t] : t \in VisionTexts}

\* detectGesture answering POINTING_UP when it recognises nothing
detectGestureGuessing(hasKey, answer) ==
  IF ~hasKey THEN "NONE"
  ELSE IF answer.kind = "throw" THEN "NONE"
  ELSE LET upper == IF answer.kind = "notext" THEN <<>>
                    ELSE toUpperCase(Trim(answer.text))
       IN IF Includes(upper, <<"O", "P", "E", "N">>) THEN "OPEN_HAND"
          ELSE IF Includes(upper, <<"F", "I", "S", "T">>) THEN "FIST"
          ELSE "POINTING_UP"

\* detectGesture(base64Image) for one answer of the service
detectGesture(hasKey, answer) ==
  IF ~hasKey THEN "NONE"
  ELSE IF answer.kind = "throw" THEN "NONE"
  ELSE LET upper == IF answer.kind = "notext" THEN <<>>
                    ELSE toUpperCase(Trim(answer.text))
           text == IF upper = <<>> THEN <<"N", "O", "N", "E">> ELSE upper
       IN IF Includes(text, <<"O", "P", "E", "N">>) THEN "OPEN_HAND"
          ELSE IF Includes(text, <<"F", "I", "S", "T">>) THEN "FIST"
          ELSE IF Includes(text, <<"P", "O", "I", "N", "T">>) THEN "POINTING_UP"
          ELSE "NONE"


(***************************************************************************)
(* Fixed-point trigonometry                                                *)
(***************************************************************************)
RECURSIVE IsqrtIter(_, _, _)
IsqrtIter(n, lo, hi) ==
  IF lo >= hi THEN lo
  ELSE LET mid == (lo + hi + 1) \div 2
       IN IF mid * mid <= n THEN IsqrtIter(n, mid, hi) ELSE IsqrtIter(n, lo, mid - 1)

\* Math.sqrt, rounded down
Isqrt(n) == IsqrtIter(n, 0, 46340)

\* Math.sin of an angle in milliradians, in thousandths (Bhaskara's formula on
\* each half period, error below 0.002)
SinMilli(p) ==
  LET q == p % 6283
      h == IF q <= 3142 THEN q ELSE q - 3142
      a == (h * (3142 - h)) \div 1000
      b == IF a < 0 THEN 0 ELSE (16000 * a) \div (49361 - 4 * a)
  IN IF q <= 3142 THEN b ELSE -b

\* Math.cos
CosMilli(p) == SinMilli(p + 1571)

(***************************************************************************)
(* The shape generators of utils/math.ts                                   *)
(***************************************************************************)
\* Math.random() draws, in thousandths: both ends of [0, 1) and values on each
\* side of every threshold the generators compare a draw with
RandomSamples == <<0, 999, 50, 970, 500, 650, 330, 20, 800, 250, 700>>

\* seeds of the random source: a start and a stride into the draws
Seeds == {[start |-> a, stride |-> b] : a \in 0..2, b \in 1..4}

\* the draw at call site slot of loop pass i (draws are independent, so the
\* number of earlier calls does not matter)
Rnd(seed, i, slot) ==
  RandomSamples[((seed.start + (seed.start + 1) * i + seed.stride * slot)
                   % Len(RandomSamples)) + 1]

\* product of two fixed-point numbers
Mul(a, b) == Quot(a * b, 1000)

Abs(a) == IF a < 0 THEN -a ELSE a
Min(a, b) == IF a < b THEN a ELSE b
Max(a, b) == IF a > b THEN a ELSE b

\* r * Math.PI * 2 and r * Math.PI, in milliradians
TwoPi(r) == Quot(r * 6283, 1000)
Pi(r) == Quot(r * 3142, 1000)

\* Math.sqrt and Math.cbrt of a fixed-point number in [0, 1)
SqrtMilli(r) == Isqrt(r * 1000)
RECURSIVE IcbrtIter(_, _, _)
IcbrtIter(n, lo, hi) ==
  IF lo >= hi THEN lo
  ELSE LET mid == (lo + hi + 1) \div 2
       IN IF mid * mid * mid <= n THEN IcbrtIter(n, mid, hi)
          ELSE IcbrtIter(n, lo, mid - 1)
CbrtMilli(r) == IcbrtIter(r * 1000000, 0, 1000)

\* a loop that runs |count| times
PassesEitherWay(count) == IF count > 0 THEN count ELSE -count

\* length of the array a loop "for (i = 0; i < count; i++) push" fills
Passes(count) == IF count > 0 THEN count ELSE 0

Point(x, y, z, color) == [x |-> x, y |-> y, z |-> z, color |-> color]

\* mixColor without the clamp
mixColorUnclamped(base, noise, seed, i, slot) ==
  [c \in 1..3 |-> base[c] + Quot((Rnd(seed, i, slot + c - 1) - 500) * noise, 1000)]

\* mixColor(base, noise): each channel jittered, then clamped to [0, 1]
mixColor(base, noise, seed, i, slot) ==
  [c \in 1..3 |->
     Min(1000, Max(0, base[c] + Quot((Rnd(seed, i, slot + c - 1) - 500) * noise, 1000)))]

\* one pass of the loop of generateTreePoints
TreePoint(seed, i) ==
  LET height == 3 * Rnd(seed, i, 0) - 1500
      radius == Quot((1500 - height) * 4, 10)
      angle == TwoPi(Rnd(seed, i, 1))
      r == Mul(SqrtMilli(Rnd(seed, i, 2)), radius)
      green == <<100, 600 + Quot(Rnd(seed, i, 3) * 2, 10), 200>>
      ornamentType == Rnd(seed, i, 5)
      ornament == IF Rnd(seed, i, 4) < 100 /\ r > Quot(radius * 8, 10)
                    THEN (IF ornamentType < 330 THEN <<1000, 100, 100>>
                          ELSE IF ornamentType < 660 THEN <<1000, 800, 100>>
                          ELSE <<200, 500, 1000>>)
                    ELSE green
      color == IF height > 1400 THEN <<1000, 1000, 500>> ELSE ornament
  IN Point(Mul(CosMilli(angle), r), height, Mul(SinMilli(angle), r), color)

generateTreePoints(count, seed) == [j \in 1..Passes(count) |-> TreePoint(seed, j - 1)]

\* one pass of the loop of generateSpherePoints
SpherePoint(seed, i, radius, yOffset, baseColor) ==
  LET theta == TwoPi(Rnd(seed, i, 0))
      cosPhi == 2 * Rnd(seed, i, 1) - 1000
      sinPhi == Isqrt(1000000 - cosPhi * cosPhi)
      r == Mul(CbrtMilli(Rnd(seed, i, 2)), radius)
  IN Point(Mul(Mul(r, sinPhi), CosMilli(theta)),
           Mul(Mul(r, sinPhi), SinMilli(theta)) + yOffset,
           Mul(r, cosPhi),
           mixColor(baseColor, 100, seed, i, 3))

\* generateSpherePoints(count) with its defaults radius = 1, yOffset = 0,
\* baseColor = [1, 1, 1]
generateSpherePoints(count, seed) ==
  [j \in 1..Passes(count) |-> SpherePoint(seed, j - 1, 1000, 0, <<1000, 1000, 1000>>)]

\* Math.floor(count * 0.15), with count - bowCount left for the box
BowCount(count) == (count * 15) \div 100

\* the box share floored on its own
BoxCountFloored(count) == (count * 85) \div 100

BoxCount(count) == count - BowCount(count)

\* one pass of the box loop of generatePresentPoints
BoxPoint(seed, i) ==
  LET size == 1300
      half == 650
      face == (Rnd(seed, i, 0) * 6) \div 1000
      u == Mul(Rnd(seed, i, 1) - 500, size)
      v == Mul(Rnd(seed, i, 2) - 500, size)
      x0 == IF face = 0 THEN half ELSE IF face = 1 THEN -half ELSE u
      y0 == IF face \in {0, 1} THEN u ELSE IF face = 2 THEN half
            ELSE IF face = 3 THEN -half ELSE v
      z0 == IF face \in {0, 1, 2, 3} THEN v ELSE IF face = 4 THEN half ELSE -half
      x == x0 + Quot((Rnd(seed, i, 3) - 500) * 30, 1000)
      y == y0 + Quot((Rnd(seed, i, 4) - 500) * 30, 1000)
      z == z0 + Quot((Rnd(seed, i, 5) - 500) * 30, 1000)
      dotted == Mul(Mul(SinMilli(x * 6), SinMilli(y * 6)), SinMilli(z * 6)) > 500
      isRibbon == \/ Abs(x) < 250 /\ face # 0 /\ face # 1
                  \/ Abs(z) < 250 /\ face # 4 /\ face # 5
      color == IF isRibbon THEN <<1000, 840, 0>>
               ELSE IF dotted THEN <<1000, 1000, 1000>>
               ELSE <<900, 100, 100>>
  IN Point(x, y, z, color)

\* one pass of the bow loop of generatePresentPoints
BowPoint(seed, i) ==
  LET t == TwoPi(Rnd(seed, i, 0))
      t2 == Pi(Rnd(seed, i, 1))
      r == Mul(Quot(SinMilli(2 * t) * 5, 10), SinMilli(t2))
  IN Point(Mul(CosMilli(t), r),
           650 + 50 + Quot(Abs(r) * 5, 10) + Quot(Rnd(seed, i, 2), 10),
           Mul(SinMilli(t), r),
           <<1000, 900, 200>>)

generatePresentPoints(count, seed) ==
  [j \in 1..Passes(BoxCount(count)) |-> BoxPoint(seed, j - 1)]
  \o [j \in 1..Passes(BowCount(count)) |-> BowPoint(seed, BoxCount(count) + j - 1)]

\* one pass of the loop of generateStarPoints
StarPoint(seed, i) ==
  LET u == TwoPi(Rnd(seed, i, 0))
      v == Pi(Rnd(seed, i, 1))
      r == 1000 + Quot(6 * Mul(SinMilli(5 * u), SinMilli(5 * v)), 10)
      rad == Quot(r * 8, 10)
      color == IF r > 1300 THEN <<1000, 800, 0>> ELSE <<1000, 1000, 800>>
  IN Point(Mul(Mul(rad, SinMilli(v)), CosMilli(u)),
           Mul(Mul(rad, SinMilli(v)), SinMilli(u)),
           Quot(Mul(rad, CosMilli(v)) * 4, 10),
           color)

generateStarPoints(count, seed) == [j \in 1..Passes(count) |-> StarPoint(seed, j - 1)]

\* Math.floor(count * 0.65), with count - bodyCount left for the details
BodyCount(count) == (count * 65) \div 100
DetailsCount(count) == count - BodyCount(count)

\* one pass of the body loop of generateSnowmanPoints
BodyPoint(seed, i) ==
  LET idx == IF Rnd(seed, i, 0) < 400 THEN 0 ELSE IF Rnd(seed, i, 1) < 750 THEN 1 ELSE 2
      cy == <<-1200, 200, 1300>>[idx + 1]
      radius == <<950, 700, 500>>[idx + 1]
      u == TwoPi(Rnd(seed, i, 2))
      v == Pi(Rnd(seed, i, 3))
      r == Mul(radius, CbrtMilli(Rnd(seed, i, 4)))
  IN Point(Mul(Mul(r, SinMilli(v)), CosMilli(u)),
           Mul(Mul(r, SinMilli(v)), SinMilli(u)) + cy,
           Mul(r, CosMilli(v)),
           <<950, 980, 1000>>)

Feature(x, y, z, c) == [x |-> x, y |-> y, z |-> z, c |-> c]

\* (Math.random() - 0.5) * width
Jitter(seed, i, slot, width) == Quot((Rnd(seed, i, slot) - 500) * width, 1000)

Coal == <<100, 100, 100>>

\* passes of "for (j = 0; j < detailsCount * 0.4; j++)"
HatCount(detailsCount) ==
  IF detailsCount <= 0 THEN 0 ELSE (4 * detailsCount + 9) \div 10

HatFeatures(detailsCount, seed) ==
  [j \in 1..HatCount(detailsCount) |->
     LET angle == TwoPi(Rnd(seed, j, 0))
         h == Quot(Rnd(seed, j, 1) * 5, 10)
         r == Mul(SqrtMilli(Rnd(seed, j, 2)), 350)
     IN Feature(Mul(CosMilli(angle), r), 1650 + h, Mul(SinMilli(angle), r),
                <<400, 400, 450>>)]

EyeFeatures(ex, seed) ==
  <<Feature(ex, 1450, 420, Coal)>>
  \o [k \in 1..5 |->
        Feature(ex + Jitter(seed, k, 0, 50), 1450 + Jitter(seed, k, 1, 50), 420, Coal)]

NoseFeatures(seed) ==
  [m \in 1..40 |->
     LET t == Quot((m - 1) * 1000, 40)
         r == Mul(1000 - t, 80)
         angle == TwoPi(Rnd(seed, m, 0))
     IN Feature(Mul(CosMilli(angle), r), 1350, 450 + Quot(t * 4, 10), <<1000, 500, 0>>)]

\* the dot k of the mouth and its 4 neighbours
MouthDot(k, seed) ==
  LET angle == 3142 + Quot(k * 3142, 4)
      mx == Mul(CosMilli(angle), 150)
      my == 1250 + Mul(SinMilli(angle), 50)
  IN <<Feature(mx, my, 450, Coal)>>
     \o [d \in 1..4 |->
           Feature(mx + Jitter(seed, 4 * k + d, 0, 20), my + Jitter(seed, 4 * k + d, 1, 20),
                   450, Coal)]

MouthFeatures(seed) ==
  MouthDot(0, seed) \o MouthDot(1, seed) \o MouthDot(2, seed) \o MouthDot(3, seed)
  \o MouthDot(4, seed)

\* left and right arm alternate: entries 2k+1 and 2k+2 are pass k
ArmFeatures(seed) ==
  [m \in 1..120 |->
     LET k == (m - 1) \div 2
         t == Quot(k * 1000, 60)
         side == IF m % 2 = 1 THEN -1 ELSE 1
     IN Feature(side * (600 + Quot(t * 6, 10)) + Jitter(seed, m, 0, 50),
                400 + Quot(t * 4, 10), Jitter(seed, m, 1, 50), <<550, 350, 150>>)]

ButtonFeatures(by, seed) ==
  [d \in 1..10 |-> Feature(Jitter(seed, d, 0, 50), by + 200, 700, Coal)]

\* the features array of generateSnowmanPoints
SnowmanFeatures(detailsCount, seed) ==
  HatFeatures(detailsCount, seed)
  \o EyeFeatures(-150, seed) \o EyeFeatures(150, seed)
  \o NoseFeatures(seed)
  \o MouthFeatures(seed)
  \o ArmFeatures(seed)
  \o ButtonFeatures(300, seed) \o ButtonFeatures(0, seed) \o ButtonFeatures(-300, seed)

\* the last loop of generateSnowmanPoints over features: pass i pushes a point
\* when features[i % features.length] is an object
DistributeFeatures(features, remainingCount, seed) ==
  IF Len(features) = 0 THEN <<>>
  ELSE [j \in 1..Passes(remainingCount) |->
          LET f == features[JsRem(j - 1, Len(features)) + 1]
          IN Point(f.x + Jitter(seed, j, 3, 20), f.y + Jitter(seed, j, 4, 20),
                   f.z + Jitter(seed, j, 5, 20), f.c)]

generateSnowmanPoints(count, seed) ==
  [j \in 1..Passes(BodyCount(count)) |-> BodyPoint(seed, j - 1)]
  \o DistributeFeatures(SnowmanFeatures(DetailsCount(count), seed),
                        DetailsCount(count), seed)

\* one pass of the loop of generateCandyCanePoints; Math.atan2(z, x) of a point
\* of the tube is theta up to a whole turn, which Math.sin ignores
CandyCanePoint(seed, i) ==
  LET t == Rnd(seed, i, 0)
      theta == TwoPi(Rnd(seed, i, 1))
      radius == 250
      tubeX == Mul(CosMilli(theta), radius)
      tubeZ == Mul(SinMilli(theta), radius)
      straightY == Quot(t * 2500, 700) - 1500
      curveAngle == Pi(Quot((t - 700) * 1000, 300))
      hookRadius == 500
      x == IF t < 700 THEN tubeX ELSE -500 + Mul(hookRadius + tubeX, CosMilli(curveAngle))
      y == IF t < 700 THEN straightY ELSE 1000 + Mul(hookRadius + tubeX, SinMilli(curveAngle))
      isStripe == IF t < 700 THEN SinMilli(straightY * 10 + theta) > 0
                  ELSE SinMilli(curveAngle * 10 + theta) > 0
  IN Point(x, y, tubeZ, IF isStripe THEN <<1000, 100, 100>> ELSE <<1000, 1000, 1000>>)

generateCandyCanePoints(count, seed) ==
  [j \in 1..Passes(count) |-> CandyCanePoint(seed, j - 1)]

\* one pass of the loop of generateWreathPoints
WreathPoint(seed, i) ==
  LET u == TwoPi(Rnd(seed, i, 0))
      v == TwoPi(Rnd(seed, i, 1))
      r_fluff == 400 + Quot((Rnd(seed, i, 2) - 500) * 2, 10)
      ring == 1200 + Mul(r_fluff, CosMilli(v))
      color == IF Rnd(seed, i, 4) < 50 THEN <<1000, 100, 100>>
               ELSE <<100, 500 + Quot(Rnd(seed, i, 3) * 3, 10), 100>>
  IN Point(Mul(ring, CosMilli(u)), Mul(ring, SinMilli(u)), Mul(r_fluff, SinMilli(v)), color)

generateWreathPoints(count, seed) == [j \in 1..Passes(count) |-> WreathPoint(seed, j - 1)]

\* one pass of the loop of generateSantaHatPoints
SantaHatPoint(seed, i) ==
  LET h == 2 * Rnd(seed, i, 0)
      angle == TwoPi(Rnd(seed, i, 1))
      brimR == 1000 + Quot((Rnd(seed, i, 2) - 500) * 2, 10)
      climb == Quot((h - 300) * 1000, 1500)
      bend == Quot(Mul(climb, climb) * 5, 10)
      coneR == Mul(1000 - Quot((h - 300) * 1000, 1700), 900)
  IN IF h < 300
       THEN Point(Mul(CosMilli(angle), brimR), h - 1000, Mul(SinMilli(angle), brimR),
                  <<1000, 1000, 1000>>)
     ELSE IF h > 1800
       THEN Point(600 + Quot((Rnd(seed, i, 3) - 500) * 3, 10),
                  800 + Quot((Rnd(seed, i, 2) - 500) * 3, 10),
                  Quot((Rnd(seed, i, 4) - 500) * 3, 10),
                  <<1000, 1000, 1000>>)
     ELSE Point(Mul(CosMilli(angle), coneR) + bend, h - 1000, Mul(SinMilli(angle), coneR),
                <<900, 100, 100>>)

generateSantaHatPoints(count, seed) ==
  [j \in 1..Passes(count) |-> SantaHatPoint(seed, j - 1)]

GeneratorNames == {"tree", "sphere", "present", "star", "snowman", "cane", "wreath",
                   "santa_hat"}

\* the generator of that name, called with count
Generate(name, count, seed) ==
  CASE name = "tree" -> generateTreePoints(count, seed)
    [] name = "sphere" -> generateSpherePoints(count, seed)
    [] name = "present" -> generatePresentPoints(count, seed)
    [] name = "star" -> generateStarPoints(count, seed)
    [] name = "snowman" -> generateSnowmanPoints(count, seed)
    [] name = "cane" -> generateCandyCanePoints(count, seed)
    [] name = "wreath" -> generateWreathPoints(count, seed)
    [] name = "santa_hat" -> generateSantaHatPoints(count, seed)

(***************************************************************************)
(* Shapes                                                                  *)
(***************************************************************************)
NoColor == <<>>

\* new THREE.Color(hex) for the two fallback colours in use
ColorYellow == <<1000, 867, 0>>
ColorCyan == <<0, 800, 1000>>

ShapeIds == <<"tree", "present", "wreath", "cane", "santa_hat", "snowman", "star">>

\* the draw of the random source behind the module-level DEFAULT_SHAPES
DefaultSeed == [start |-> 0, stride |-> 1]

\* MathUtils.generate<Shape>Points(count) for entry s of DEFAULT_SHAPES
GeneratePoints(s, count) == Generate(ShapeIds[s + 1], count, DefaultSeed)

ShapeNames == <<"Festive Tree", "Magic Present", "Holiday Wreath", "Candy Cane",
                "Santa Hat", "Snowman", "North Star">>

DEFAULT_SHAPES ==
  [s \in 0..(NumShapes - 1) |->
     [id |-> ShapeIds[s + 1], name |-> ShapeNames[s + 1],
      points |-> GeneratePoints(s, PARTICLE_COUNT), color |-> NULL]]

\* useMemo at App: the override wins when both of its halves are truthy
activeShape(idx, pts, name) ==
  IF pts # NULL /\ name # NULL /\ name.some # <<>>
    THEN [id |-> "custom", name |-> name.some, points |-> pts.some,
          color |-> Some(ColorCyan)]
    ELSE [id |-> DEFAULT_SHAPES[idx].id, name |-> DEFAULT_SHAPES[idx].name,
          points |-> DEFAULT_SHAPES[idx].points, color |-> DEFAULT_SHAPES[idx].color]

\* a wrap one short of the list's length
NextIdxShortWrap(prev) == JsRem(prev + 1, NumShapes - 1)

\* setCurrentShapeIdx updater of handleNextShape
NextIdx(prev) == JsRem(prev + 1, NumShapes)

\* a stop at the first shape instead of the wrap to the last
PrevIdxClamped(prev) == IF prev = 0 THEN 0 ELSE prev - 1

\* setCurrentShapeIdx updater of handlePrevShape
PrevIdx(prev) == JsRem(prev - 1 + NumShapes, NumShapes)

\* The catalog is the index with the override slot.  The three state updates of
\* handleNextShape, batched into one render:
NextShape(cat) == [idx |-> NextIdx(cat.idx), name |-> NULL, points |-> NULL]

\* the three state updates of handlePrevShape
PrevShape(cat) == [idx |-> PrevIdx(cat.idx), name |-> NULL, points |-> NULL]

\* the override written whatever the number of points
SetCustomUnguarded(cat, prompt, points) ==
  [idx |-> cat.idx, name |-> Some(prompt), points |-> Some(points)]

\* the name written, the points left for a later update
SetCustomNameOnly(cat, prompt, points) ==
  IF Len(points) > 0
    THEN [idx |-> cat.idx, name |-> Some(prompt), points |-> cat.points]
    ELSE cat

\* the points added to those of the override already set
SetCustomAccumulating(cat, prompt, points) ==
  IF Len(points) > 0
    THEN [idx |-> cat.idx, name |-> Some(prompt),
          points |-> IF cat.points = NULL THEN Some(points)
                     ELSE Some(cat.points.some \o points)]
    ELSE cat

\* the state updates of handleGenerateShape once generateGeminiShape has
\* answered points for the prompt the handler closed over; React applies the
\* updates of one continuation in a single render
SetCustom(cat, prompt, points) ==
  IF Len(points) > 0
    THEN [idx |-> cat.idx, name |-> Some(prompt), points |-> Some(points)]
    ELSE cat

(***************************************************************************)
(* The shape service                                                       *)
(***************************************************************************)
\* the flat-array-to-points loop and the final slice of generateGeminiShape
RECURSIVE Triples(_, _)
Triples(raw, i) ==
  IF i >= Len(raw) THEN <<>>
  ELSE (IF i + 2 < Len(raw)
          THEN <<[x |-> raw[i + 1], y |-> raw[i + 2], z |-> raw[i + 3],
                  color |-> NoColor]>>
          ELSE <<>>) \o Triples(raw, i + 3)

\* the array returned whole
SliceAll(s, n) == s

\* points.slice(0, count), count >= 0
Slice(s, n) == SubSeq(s, 1, IF Len(s) < n THEN Len(s) ELSE n)

\* generateGeminiShape(prompt, count) for one answer of the service
generateGeminiShape(hasKey, resp, count) ==
  IF ~hasKey THEN <<>>
  ELSE IF resp.kind = "throw" THEN <<>>
  ELSE IF resp.kind = "nonarray" THEN <<>>
  ELSE Slice(Triples(resp.raw, 0), count)

RawArray(tag, n) == [k \in 1..n |-> 1000 * tag + 100 * k]

\* answers of the service: a thrown error, a non-array, flat arrays of 0, 2, 3
\* and 3 * count + 4 numbers (one point more than asked for, and one number)
Responses ==
  {[kind |-> "throw", raw |-> <<>>], [kind |-> "nonarray", raw |-> <<>>]}
  \cup {[kind |-> "array", raw |-> RawArray(1, n)] : n \in {0, 2, 3}}
  \cup {[kind |-> "array", raw |-> RawArray(2, 3 * PARTICLE_COUNT + 4)]}

Prompts == {<<>>, <<" ">>, <<"b">>, <<"s", " ">>}


(***************************************************************************)
(* State                                                                   *)
(***************************************************************************)
VARIABLES
  \* App (useState)
  currentShapeIdx, customShapePoints, customShapeName, mode, motionIntensity,
  isCameraActive, aiLoading, promptInput, aiStatus,
  \* the module-level Gemini client: TRUE when an API key was configured
  ai,
  \* pending generateGeminiShape calls: the prompt each handler closure holds;
  \* navigated records whether next/previous ran since the call started
  inFlight,
  \* pending setTimeout(() => setAiStatus(""), 3000) callbacks
  statusTimers,
  \* pending detectGesture calls of handleVisionFrame
  gesturesInFlight,
  \* WebcamHandler, mounted while the camera is on: videoRef.current.readyState
  \* (0 before the stream plays, 4 with frame data) and prevFrameRef.current
  readyState, prevFrameRef,
  \* the props App's last render handed to MagicParticles
  props,
  \* MagicParticles: the four Float32Arrays, indexed 0..3*count-1
  positions, velocities, targetPositions, colors,
  \* pointsRef.current.rotation.y in 1e-4 rad, state.clock.elapsedTime in ms
  rotationY, time,
  \* history: shape requests started, frames run, the last handler that ran
  \* with what it was given
  started, frames, lastEvent

appVars == <<currentShapeIdx, customShapePoints, customShapeName, mode,
             motionIntensity, isCameraActive, aiLoading, promptInput, aiStatus,
             ai, inFlight, statusTimers, gesturesInFlight, readyState,
             prevFrameRef, started>>
particleVars == <<positions, velocities, targetPositions, colors, rotationY, time,
                  frames>>
vars == <<appVars, props, particleVars, lastEvent>>

Modes == {"FORM", "SCATTER"}

\* motion samples, in hundredths: at rest, just below, at and just above the
\* threshold, saturated
MotionSamples == {0, 24, 25, 26, 100}

\* frame lengths in ms: a repeated timestamp, a 60 Hz frame
DeltaSamples == {0, 16}

Event(op, arg) == [op |-> op, arg |-> arg]

(***************************************************************************)
(* MagicParticles                                                          *)
(***************************************************************************)
\* the default of the color prop, then new THREE.Color(color)
FallbackColor(color) == IF color = NULL THEN ColorYellow ELSE color.some

\* the source index off by one
SourcePointShifted(targetPoints, i) == targetPoints[JsRem(i + 1, Len(targetPoints)) + 1]

\* targetPoints[i % targetPoints.length]
SourcePoint(targetPoints, i) == targetPoints[JsRem(i, Len(targetPoints)) + 1]

\* tx, ty, tz of particle i in the shape-change effect
TargetOf(targetPoints, i) ==
  IF Len(targetPoints) > 0
    THEN LET p == SourcePoint(targetPoints, i) IN <<p.x, p.y, p.z>>
    ELSE <<0, 0, 0>>

\* r, g, b of particle i in the shape-change effect
ColorOf(targetPoints, color, i) ==
  IF Len(targetPoints) > 0 /\ SourcePoint(targetPoints, i).color # NoColor
    THEN SourcePoint(targetPoints, i).color
    ELSE FallbackColor(color)

\* the effect returning early on a shape without points
EffectTargetsKeptOnEmpty(old, p) ==
  [n \in DOMAIN old |->
     IF n < 3 * p.count /\ Len(p.targetPoints) > 0
       THEN TargetOf(p.targetPoints, n \div 3)[(n % 3) + 1]
       ELSE old[n]]

\* the effect's loop over i < count, writing targetPositions in place
EffectTargetPositions(old, p) ==
  [n \in DOMAIN old |->
     IF n < 3 * p.count THEN TargetOf(p.targetPoints, n \div 3)[(n % 3) + 1]
     ELSE old[n]]

\* the colors array rebuilt at the size of the shape
EffectColorsResized(old, p) ==
  [n \in 0..(3 * Len(p.targetPoints) - 1) |->
     ColorOf(p.targetPoints, p.color, n \div 3)[(n % 3) + 1]]

\* the effect's loop over i < count, writing colors in place
EffectColors(old, p) ==
  [n \in DOMAIN old |->
     IF n < 3 * p.count THEN ColorOf(p.targetPoints, p.color, n \div 3)[(n % 3) + 1]
     ELSE old[n]]

\* the effect also zeroing the velocities
CommitResettingVelocities(p) ==
  /\ props' = p
  /\ IF p.targetPoints # props.targetPoints \/ p.color # props.color
       THEN /\ targetPositions' = EffectTargetPositions(targetPositions, p)
            /\ colors' = EffectColors(colors, p)
            /\ velocities' = [n \in DOMAIN velocities |-> 0]
       ELSE UNCHANGED <<targetPositions, colors, velocities>>
  /\ UNCHANGED <<positions, rotationY, time, frames>>

\* a render of MagicParticles with props p, and the effect it schedules when a
\* dependency (targetPoints, color) changed
Commit(p) ==
  /\ props' = p
  /\ IF p.targetPoints # props.targetPoints \/ p.color # props.color
       THEN /\ targetPositions' = EffectTargetPositions(targetPositions, p)
            /\ colors' = EffectColors(colors, p)
       ELSE UNCHANGED <<targetPositions, colors>>
  /\ UNCHANGED <<positions, velocities, rotationY, time, frames>>

\* the threshold itself counted as motion
IsScatterAtThreshold(m, intensity) == m = "SCATTER" \/ intensity >= MotionThreshold

\* const isScatter = mode === AppMode.SCATTER || motionIntensity > 0.25
IsScatter(m, intensity) == m = "SCATTER" \/ intensity > MotionThreshold

\* cos and sin of Math.atan2(z, x), in thousandths; atan2(0, 0) is 0
CosAtan2(z, x, dist) == IF dist = 0 THEN (IF x < 0 THEN -1000 ELSE 1000)
                        ELSE Quot(1000 * x, dist)
SinAtan2(z, x, dist) == IF dist = 0 THEN 0 ELSE Quot(1000 * z, dist)

\* the damping multiplier applied a second time
DampTwice(v, isScatter) ==
  IF isScatter THEN Quot(Quot(v * 92, 100) * 92, 100) ELSE Quot(Quot(v * 85, 100) * 85, 100)

\* the regime's damping multiplier, applied once per frame
Damp(v, isScatter) == IF isScatter THEN Quot(v * 92, 100) ELSE Quot(v * 85, 100)

\* velocity of one particle after the force step of the scatter regime
ScatterForce(pos, vel, t, delta) ==
  LET x == pos[1]
      y == pos[2]
      z == pos[3]
      distXZ == Isqrt(x * x + z * z)
      cosA == CosAtan2(z, x, distXZ)
      sinA == SinAtan2(z, x, distXZ)
      tanX == -sinA
      tanZ == cosA
      targetRadius == 3500 + Quot(SinMilli(t * 2 + y) * 5, 10)
      radialForce == (targetRadius - distXZ) * 2
      targetY == Quot(SinMilli(Quot(t * 3, 2) + distXZ) * 15, 10)
  IN <<vel[1] + Quot(tanX * SwirlSpeed * delta, 1000)
              + Quot(Quot(cosA * radialForce, 1000) * delta, 1000),
       vel[2] + Quot((targetY - y) * delta, 1000),
       vel[3] + Quot(tanZ * SwirlSpeed * delta, 1000)
              + Quot(Quot(sinA * radialForce, 1000) * delta, 1000)>>

\* velocity of one particle after the force step of the form regime, for a
\* shimmer of amplitude amp
FormForceAmp(pos, vel, target, t, delta, amp) ==
  LET x == pos[1]
      y == pos[2]
      z == pos[3]
      nx == Quot(SinMilli(t * 3 + y) * amp, 1000)
      ny == Quot(CosMilli(t * 2 + z) * amp, 1000)
      nz == Quot(SinMilli(t * 4 + x) * amp, 1000)
  IN <<vel[1] + Quot(((target[1] + nx) - x) * SpringK * delta, 1000),
       vel[2] + Quot(((target[2] + ny) - y) * SpringK * delta, 1000),
       vel[3] + Quot(((target[3] + nz) - z) * SpringK * delta, 1000)>>

\* velocity of one particle after the force step of the form regime
FormForce(pos, vel, target, t, delta) ==
  FormForceAmp(pos, vel, target, t, delta, NoiseAmp)

Triple(arr, i) == <<arr[3 * i], arr[3 * i + 1], arr[3 * i + 2]>>

\* velocities[idx..idx+2] of particle i after one pass of the loop body
StepVelocity(i, isScatter, t, delta) ==
  LET forced == IF isScatter
                  THEN ScatterForce(Triple(positions, i), Triple(velocities, i), t, delta)
                  ELSE FormForce(Triple(positions, i), Triple(velocities, i),
                                 Triple(targetPositions, i), t, delta)
  IN [a \in 1..3 |-> Damp(forced[a], isScatter)]

\* the useFrame callback: one integrator tick of length delta (pointsRef.current
\* is set from the mount on)
Tick(delta) ==
  LET isScatter == IsScatter(props.mode, props.motionIntensity)
      t == time + delta
  IN /\ frames' = frames + 1
     /\ time' = t
     /\ velocities' =
          [n \in DOMAIN velocities |->
             IF n < 3 * props.count
               THEN StepVelocity(n \div 3, isScatter, t, delta)[(n % 3) + 1]
               ELSE velocities[n]]
     /\ positions' =
          [n \in DOMAIN positions |->
             IF n < 3 * props.count THEN positions[n] + velocities'[n]
             ELSE positions[n]]
     /\ rotationY' = rotationY + (IF isScatter THEN 5 * delta ELSE delta)
     /\ lastEvent' = Event("tick", [isScatter |-> isScatter, delta |-> delta])
     /\ UNCHANGED <<appVars, props, targetPositions, colors>>

\* one tick of the useFrame callback in the form regime with the shimmer
\* amplitude taken as 0
SpringTick(delta) ==
  LET t == time + delta
      stepped(i) == FormForceAmp(Triple(positions, i), Triple(velocities, i),
                                 Triple(targetPositions, i), t, delta, 0)
  IN /\ ~IsScatter(props.mode, props.motionIntensity)
     /\ frames' = frames + 1
     /\ time' = t
     /\ velocities' =
          [n \in DOMAIN velocities |->
             IF n < 3 * props.count
               THEN Damp(stepped(n \div 3)[(n % 3) + 1], FALSE)
               ELSE velocities[n]]
     /\ positions' =
          [n \in DOMAIN positions |->
             IF n < 3 * props.count THEN positions[n] + velocities'[n]
             ELSE positions[n]]
     /\ rotationY' = rotationY + delta
     /\ lastEvent' = Event("tick", [isScatter |-> FALSE, delta |-> delta])
     /\ UNCHANGED <<appVars, props, targetPositions, colors>>


(***************************************************************************)
(* App                                                                     *)
(***************************************************************************)
\* the props of <MagicParticles> in App's JSX
RenderProps(idx, pts, name, md, cam, intensity) ==
  [mode |-> md,
   targetPoints |-> activeShape(idx, pts, name).points,
   count |-> PARTICLE_COUNT,
   color |-> activeShape(idx, pts, name).color,
   motionIntensity |-> IF cam THEN intensity ELSE 0]

\* App re-renders with its new state and MagicParticles commits
Rerender ==
  Commit(RenderProps(currentShapeIdx', customShapePoints', customShapeName', mode',
                     isCameraActive', motionIntensity'))

\* every pending request has now seen a navigation
MarkNavigated(reqs) == [k \in DOMAIN reqs |-> [reqs[k] EXCEPT !.navigated = TRUE]]

RemoveAt(s, k) == SubSeq(s, 1, k - 1) \o SubSeq(s, k + 1, Len(s))

Catalog ==
  [idx |-> currentShapeIdx, name |-> customShapeName, points |-> customShapePoints]

SetCatalog(cat) ==
  /\ currentShapeIdx' = cat.idx
  /\ customShapeName' = cat.name
  /\ customShapePoints' = cat.points

handleNextShape ==
  /\ SetCatalog(NextShape(Catalog))
  /\ inFlight' = MarkNavigated(inFlight)
  /\ lastEvent' = Event("next", [before |-> currentShapeIdx,
                                 repeat |-> lastEvent.op = "next"])
  /\ UNCHANGED <<mode, motionIntensity, isCameraActive, readyState, prevFrameRef, aiLoading, promptInput,
                 aiStatus, ai, gesturesInFlight, statusTimers, started>>
  /\ Rerender

handlePrevShape ==
  /\ SetCatalog(PrevShape(Catalog))
  /\ inFlight' = MarkNavigated(inFlight)
  /\ lastEvent' = Event("previous", [before |-> currentShapeIdx,
                                     repeat |-> lastEvent.op = "previous",
                                     afterNext |-> lastEvent.op = "next"])
  /\ UNCHANGED <<mode, motionIntensity, isCameraActive, readyState, prevFrameRef, aiLoading, promptInput,
                 aiStatus, ai, gesturesInFlight, statusTimers, started>>
  /\ Rerender

\* onChange of the prompt input
setPromptInput(p) ==
  /\ p # promptInput
  /\ promptInput' = p
  /\ lastEvent' = Event("type", <<>>)
  /\ UNCHANGED <<currentShapeIdx, customShapePoints, customShapeName, mode,
                 motionIntensity, isCameraActive, readyState, prevFrameRef, aiLoading, aiStatus, ai,
                 gesturesInFlight, inFlight, statusTimers, started>>
  /\ Rerender

\* handleGenerateShape up to its await
handleGenerateShape ==
  /\ Trim(promptInput) # <<>>
  /\ started < MaxRequests
  /\ started' = started + 1
  /\ aiLoading' = TRUE
  /\ aiStatus' = "Summoning magic..."
  /\ inFlight' = Append(inFlight, [prompt |-> promptInput, navigated |-> FALSE])
  /\ lastEvent' = Event("generate", <<>>)
  /\ UNCHANGED <<currentShapeIdx, customShapePoints, customShapeName, mode,
                 motionIntensity, isCameraActive, readyState, prevFrameRef, promptInput, ai,
                 gesturesInFlight, statusTimers>>
  /\ Rerender

\* the Genie button, disabled while aiLoading
ClickGenie == ~aiLoading /\ handleGenerateShape

\* Enter in the prompt input
PressEnter == handleGenerateShape

\* handleGenerateShape from its await on, for pending request k and answer resp
GenerateResult(k, resp) ==
  LET points == generateGeminiShape(ai, resp, PARTICLE_COUNT)
      prompt == inFlight[k].prompt
  IN /\ SetCatalog(SetCustom(Catalog, prompt, points))
     /\ aiStatus' = IF Len(points) > 0 THEN "Magic summoned!" ELSE "The spell fizzled."
     /\ statusTimers' = IF Len(points) > 0 THEN statusTimers + 1 ELSE statusTimers
     /\ aiLoading' = FALSE
     /\ inFlight' = RemoveAt(inFlight, k)
     /\ lastEvent' = Event("result",
                           [prompt |-> prompt,
                            stale |-> inFlight[k].navigated,
                            outcome |-> IF ai THEN resp.kind ELSE "nokey",
                            rawLen |-> IF ai THEN Len(resp.raw) ELSE 0,
                            raw |-> IF ai THEN resp.raw ELSE <<>>,
                            points |-> points,
                            repeat |-> /\ customShapeName = Some(prompt)
                                       /\ customShapePoints = Some(points)])
     /\ UNCHANGED <<mode, motionIntensity, isCameraActive, readyState, prevFrameRef, promptInput, ai,
                    gesturesInFlight, started>>
     /\ Rerender

\* setTimeout(() => setAiStatus(""), 3000) fires
StatusTimeout ==
  /\ statusTimers > 0
  /\ statusTimers' = statusTimers - 1
  /\ aiStatus' = ""
  /\ lastEvent' = Event("timeout", <<>>)
  /\ UNCHANGED <<currentShapeIdx, customShapePoints, customShapeName, mode,
                 motionIntensity, isCameraActive, readyState, prevFrameRef, aiLoading, promptInput, ai,
                 gesturesInFlight, inFlight, started>>
  /\ Rerender

\* onMouseEnter (SCATTER), onMouseLeave and onMouseDown (FORM) of the hint
setMode(m) ==
  /\ m # mode
  /\ mode' = m
  /\ lastEvent' = Event("mode", <<>>)
  /\ UNCHANGED <<currentShapeIdx, customShapePoints, customShapeName,
                 motionIntensity, isCameraActive, readyState, prevFrameRef, aiLoading, promptInput,
                 aiStatus, ai, gesturesInFlight, inFlight, statusTimers, started>>
  /\ Rerender

\* the camera button: setIsCameraActive(!isCameraActive).  WebcamHandler is
\* mounted with fresh refs or unmounted (its cleanup cancels the animation frame
\* and stops the stream); motionIntensity is not written.
ToggleCamera ==
  /\ isCameraActive' = ~isCameraActive
  /\ readyState' = 0
  /\ prevFrameRef' = NULL
  /\ lastEvent' = Event("camera", <<>>)
  /\ UNCHANGED <<currentShapeIdx, customShapePoints, customShapeName, mode,
                 motionIntensity, aiLoading, promptInput, aiStatus, ai,
                 gesturesInFlight, inFlight, statusTimers, started>>
  /\ Rerender

\* onMotion of WebcamHandler: setMotionIntensity(intensity)
handleMotion(intensity) ==
  /\ motionIntensity' = intensity
  /\ lastEvent' = Event("motion", [intensity |-> intensity])
  /\ UNCHANGED <<currentShapeIdx, customShapePoints, customShapeName, mode,
                 isCameraActive, aiLoading, promptInput, aiStatus, ai,
                 gesturesInFlight, readyState, inFlight, statusTimers, started>>
  /\ Rerender

\* startWebcam of the mounted WebcamHandler got its stream and the video
\* element has frame data; a refused or failed getUserMedia leaves readyState 0
StartWebcam ==
  /\ isCameraActive
  /\ readyState = 0
  /\ readyState' = 4
  /\ lastEvent' = Event("stream", <<>>)
  /\ UNCHANGED <<currentShapeIdx, customShapePoints, customShapeName, mode,
                 motionIntensity, isCameraActive, aiLoading, promptInput, aiStatus,
                 ai, gesturesInFlight, prevFrameRef, inFlight, statusTimers,
                 started>>
  /\ Rerender

\* the 64 x 48 image of processFrame
PixelCount == 64 * 48

\* the image as regions of equally green pixels: the pixels in each region.
\* No sum of regions is a score of 77 to 79, whose intensity would lie between
\* 0.25 and 0.26.
RegionSizes == <<72, 92, 2908>>

Regions == DOMAIN RegionSizes

\* green channels (data[i+1], 0..255) of the images the camera delivers: dark,
\* a first region brighter by 20 and by 21, a second region brighter by 21, the
\* large region saturated
VideoFrames == {<<0, 0, 0>>, <<20, 0, 0>>, <<21, 0, 0>>, <<0, 21, 0>>, <<0, 0, 255>>}

RECURSIVE SumSizes(_)
SumSizes(rs) ==
  IF rs = {} THEN 0
  ELSE LET r == CHOOSE x \in rs : TRUE IN RegionSizes[r] + SumSizes(rs \ {r})

\* diffScore: the pixels whose green channel moved by more than 20; 0 without
\* a previous frame
DiffScore(prev, data) ==
  IF prev = NULL THEN 0
  ELSE SumSizes({r \in Regions : Abs(data[r] - prev.some[r]) > DiffThreshold})

\* Math.min(diffScore / (pixelCount * 0.1), 1), in hundredths rounded down
NormalizedMotion(diffScore) == Min((diffScore * 1000) \div PixelCount, 100)

\* one processFrame of the mounted WebcamHandler's requestAnimationFrame loop
\* with frame data available: it stores the frame and reports the motion
processFrame(data) ==
  /\ isCameraActive
  /\ readyState = 4
  /\ prevFrameRef' = Some(data)
  /\ handleMotion(NormalizedMotion(DiffScore(prevFrameRef, data)))

\* the 4000 ms interval of WebcamHandler fires and calls onFrame: the
\* handleVisionFrame of the render that mounted it, up to its await.  The
\* handler is mounted, and its closure was made, with the camera active.
VisionFrame ==
  /\ isCameraActive
  /\ gesturesInFlight < MaxGestures
  /\ gesturesInFlight' = gesturesInFlight + 1
  /\ lastEvent' = Event("frame", <<>>)
  /\ UNCHANGED <<currentShapeIdx, customShapePoints, customShapeName, mode,
                 motionIntensity, isCameraActive, readyState, prevFrameRef, aiLoading, promptInput, aiStatus,
                 ai, inFlight, statusTimers, started>>
  /\ Rerender

\* setAiStatus of handleVisionFrame for each gesture
GestureStatus(gesture) ==
  CASE gesture = "OPEN_HAND" -> "Gesture: Scatter!"
    [] gesture = "FIST" -> "Gesture: Form Shape"
    [] gesture = "POINTING_UP" -> "Gesture: Next!"
    [] OTHER -> ""

\* handleVisionFrame from its await on, for one answer of the service
GestureResult(answer) ==
  LET gesture == detectGesture(ai, answer)
  IN /\ gesturesInFlight > 0
     /\ gesturesInFlight' = gesturesInFlight - 1
     /\ aiStatus' = GestureStatus(gesture)
     /\ IF gesture = "POINTING_UP"
          THEN /\ SetCatalog(NextShape(Catalog))
               /\ inFlight' = MarkNavigated(inFlight)
          ELSE UNCHANGED <<currentShapeIdx, customShapePoints, customShapeName,
                           inFlight>>
     /\ lastEvent' = Event("gesture",
                           [gesture |-> gesture,
                            outcome |-> IF ai THEN answer.kind ELSE "nokey",
                            text |-> answer.text,
                            cameraOn |-> isCameraActive])
     /\ UNCHANGED <<mode, motionIntensity, isCameraActive, readyState, prevFrameRef, aiLoading, promptInput,
                    ai, statusTimers, started>>
     /\ Rerender


(***************************************************************************)
(* Initial state: App mounted, MagicParticles allocated, first effect run  *)
(***************************************************************************)
\* draws of the random start sphere (radius below 5)
StartDraws == {1, 2}

StartPosition(d, n) == ((1700 * d + 900 * n) % 5000) - 2500

Indices == 0..(3 * PARTICLE_COUNT - 1)

InitApp ==
  /\ currentShapeIdx = 0
  /\ customShapePoints = NULL
  /\ customShapeName = NULL
  /\ mode = "FORM"
  /\ motionIntensity = 0
  /\ isCameraActive = FALSE
  /\ aiLoading = FALSE
  /\ promptInput = <<>>
  /\ aiStatus = ""
  /\ ai \in BOOLEAN
  /\ inFlight = <<>>
  /\ statusTimers = 0
  /\ gesturesInFlight = 0
  /\ readyState = 0
  /\ prevFrameRef = NULL
  /\ started = 0

InitParticles(draws) ==
  /\ \E d \in draws : positions = [n \in Indices |-> StartPosition(d, n)]
  /\ velocities = [n \in Indices |-> 0]
  /\ targetPositions = EffectTargetPositions([n \in Indices |-> 0], props)
  /\ colors = EffectColors([n \in Indices |-> 0], props)
  /\ rotationY = 0
  /\ time = 0
  /\ frames = 0

Init ==
  /\ InitApp
  /\ props = RenderProps(currentShapeIdx, customShapePoints, customShapeName, mode,
                         isCameraActive, motionIntensity)
  /\ InitParticles({1})
  /\ lastEvent = Event("mount", <<>>)

\* a resolved promise's continuation runs before any other event: without a
\* client, generateGeminiShape and detectGesture resolve at once
MicrotaskPending == ~ai /\ (inFlight # <<>> \/ gesturesInFlight > 0)

\* the event loop is free to run a handler, a timer or a frame
Idle == ~MicrotaskPending

\* some pending request gets one of the answers
DeliverFrom(answers) ==
  \E k \in DOMAIN inFlight : \E resp \in answers : GenerateResult(k, resp)

Deliver == DeliverFrom(Responses)

(***************************************************************************)
(* The shape catalog: navigation, the prompt, shape requests and results   *)
(***************************************************************************)
Next ==
  \/ Deliver
  \/ Idle /\ handleNextShape
  \/ Idle /\ handlePrevShape
  \/ Idle /\ \E p \in Prompts : setPromptInput(p)
  \/ Idle /\ ClickGenie
  \/ Idle /\ PressEnter
  \/ Idle /\ StatusTimeout

Spec == Init /\ [][Next]_vars


(***************************************************************************)
(* App with the frame loop: navigation, one prompt, the Genie button, the  *)
(* mouse hint and the integrator                                           *)
(***************************************************************************)
\* answers in this specification: a thrown error, a full shape
FrameResponses == {r \in Responses : r.kind = "throw" \/ Len(r.raw) > 3}

NextFrame ==
  \/ DeliverFrom(FrameResponses)
  \/ Idle /\ handleNextShape
  \/ Idle /\ handlePrevShape
  \/ Idle /\ setPromptInput(<<"b">>)
  \/ Idle /\ started < MaxFrameRequests /\ ClickGenie
  \/ Idle /\ \E m \in Modes : setMode(m)
  \/ Idle /\ frames < MaxFrameTicks /\ Tick(16)

SpecFrame == Init /\ [][NextFrame]_vars

(***************************************************************************)
(* MagicParticles alone, under a parent that may hand it any props         *)
(***************************************************************************)
\* targetPoints and color props: no points, fewer points than particles, as
\* many, more; with and without point colours and a fallback colour
ShapeProps ==
  {[targetPoints |-> <<>>, color |-> NULL],
   [targetPoints |-> <<>>, color |-> Some(ColorCyan)],
   [targetPoints |-> Triples(RawArray(1, 6), 0), color |-> Some(ColorCyan)],
   [targetPoints |-> GeneratePoints(0, PARTICLE_COUNT), color |-> NULL],
   [targetPoints |-> GeneratePoints(1, PARTICLE_COUNT + 1), color |-> NULL]}

\* the parent re-renders with a new shape
ParentSetsShape(sp) ==
  /\ sp.targetPoints # props.targetPoints \/ sp.color # props.color
  /\ Commit([props EXCEPT !.targetPoints = sp.targetPoints, !.color = sp.color])
  /\ lastEvent' = Event("shape", <<>>)
  /\ UNCHANGED appVars

\* the parent re-renders with a new requested mode
ParentSetsMode(m) ==
  /\ m # props.mode
  /\ Commit([props EXCEPT !.mode = m])
  /\ lastEvent' = Event("mode", <<>>)
  /\ UNCHANGED appVars

\* the parent re-renders with a new motion intensity
ParentSetsMotion(i) ==
  /\ i # props.motionIntensity
  /\ Commit([props EXCEPT !.motionIntensity = i])
  /\ lastEvent' = Event("motion", <<>>)
  /\ UNCHANGED appVars

InitAlone ==
  /\ InitApp
  /\ ai = FALSE
  /\ \E sp \in ShapeProps :
       props = [mode |-> "FORM", targetPoints |-> sp.targetPoints,
                count |-> PARTICLE_COUNT, color |-> sp.color, motionIntensity |-> 0]
  /\ InitParticles(StartDraws)
  /\ lastEvent = Event("mount", <<>>)

NextAlone ==
  \/ \E sp \in ShapeProps : ParentSetsShape(sp)
  \/ \E m \in Modes : ParentSetsMode(m)
  \/ \E i \in MotionSamples : ParentSetsMotion(i)
  \/ frames < MaxTicks /\ \E delta \in DeltaSamples : Tick(delta)

SpecParticles == InitAlone /\ [][NextAlone]_vars


(***************************************************************************)
(* The generators of utils/math.ts called on their own, and their points   *)
(* shown by MagicParticles as those of a default shape are                 *)
(***************************************************************************)
GenCounts == (-MaxGenCount)..MaxGenCount

InitGenerators ==
  /\ InitApp
  /\ ai = FALSE
  /\ props = RenderProps(currentShapeIdx, customShapePoints, customShapeName, mode,
                         isCameraActive, motionIntensity)
  /\ InitParticles({1})
  /\ \E name \in GeneratorNames : \E count \in GenCounts : \E seed \in Seeds :
       lastEvent = Event("call", [name |-> name, count |-> count, seed |-> seed])

\* the call returns
RunGenerator ==
  /\ lastEvent.op = "call"
  /\ lastEvent' = Event("return",
                        [name |-> lastEvent.arg.name, count |-> lastEvent.arg.count,
                         seed |-> lastEvent.arg.seed,
                         points |-> Generate(lastEvent.arg.name, lastEvent.arg.count,
                                             lastEvent.arg.seed)])
  /\ UNCHANGED <<appVars, props, particleVars>>

\* the points of a DEFAULT_SHAPES generator called with PARTICLE_COUNT become
\* the targetPoints of MagicParticles, without a color prop
ShowGenerated ==
  /\ lastEvent.op = "return"
  /\ \E s \in DOMAIN ShapeIds : ShapeIds[s] = lastEvent.arg.name
  /\ lastEvent.arg.count = PARTICLE_COUNT
  /\ Commit([props EXCEPT !.targetPoints = lastEvent.arg.points, !.color = NULL])
  /\ lastEvent' = Event("shown", lastEvent.arg)
  /\ UNCHANGED appVars

NextGenerators ==
  \/ RunGenerator
  \/ ShowGenerated

SpecGenerators == InitGenerators /\ [][NextGenerators]_vars


(***************************************************************************)
(* The spring of the form regime on its own: particles at rest, a static   *)
(* shape, no shimmer, a steady frame rate                                  *)
(***************************************************************************)
\* frame lengths in ms: 60 Hz and 30 Hz
SpringDeltas == {16, 33}

NextSpring ==
  /\ frames < MaxSpringTicks
  /\ \E delta \in SpringDeltas :
       /\ lastEvent.op = "tick" => delta = lastEvent.arg.delta
       /\ SpringTick(delta)

SpecSpring == InitAlone /\ [][NextSpring]_vars


(***************************************************************************)
(* App with the camera: the toggle, vision frames and gesture results,     *)
(* next to one prompt, the Genie button and the mouse hint                 *)
(***************************************************************************)
NextVision ==
  \/ \E answer \in VisionAnswers : GestureResult(answer)
  \/ DeliverFrom(FrameResponses)
  \/ Idle /\ ToggleCamera
  \/ Idle /\ VisionFrame
  \/ Idle /\ setPromptInput(<<"b">>)
  \/ Idle /\ started < MaxFrameRequests /\ ClickGenie
  \/ Idle /\ \E m \in Modes : setMode(m)

SpecVision == Init /\ [][NextVision]_vars


(***************************************************************************)
(* App with the camera's motion signal: the toggle, the stream, processed  *)
(* video frames, the mouse hint and the integrator                         *)
(***************************************************************************)
NextMotion ==
  \/ Idle /\ ToggleCamera
  \/ Idle /\ StartWebcam
  \/ Idle /\ \E data \in VideoFrames : processFrame(data)
  \/ Idle /\ \E m \in Modes : setMode(m)
  \/ Idle /\ frames < MaxFrameTicks /\ Tick(16)

SpecMotion == Init /\ [][NextMotion]_vars


(***************************************************************************)
(* Properties                                                              *)
(***************************************************************************)
Particles == 0..(PARTICLE_COUNT - 1)

\* C1: on every tick the regime is Scatter exactly when the requested mode is
\* Scatter or the motion intensity handed in exceeds 0.25, decided from the props
\* of that tick alone; the container then turns at the regime's rate.
C1_ModeOverride ==
  [][lastEvent'.op = "tick" =>
       LET scatter == props.mode = "SCATTER" \/ props.motionIntensity > 25
       IN /\ lastEvent'.arg.isScatter = scatter
          /\ rotationY' - rotationY = (IF scatter THEN 5 ELSE 1) * lastEvent'.arg.delta]_vars

\* a Form tick at exactly 0.25 right after a Scatter tick
C1_Witness ==
  /\ lastEvent.op = "tick"
  /\ frames = 2
  /\ props.mode = "FORM"
  /\ props.motionIntensity = 25
  /\ ~lastEvent.arg.isScatter
  /\ rotationY = 5 * 16 + 16

\* C2: a result that arrives after next() or previous() ran during its request
\* does not write the override slot, and targetPositions and colors stay those of
\* the default shape the navigation chose.
C2_StaleResultDiscarded ==
  [][(/\ lastEvent'.op = "result"
      /\ lastEvent'.arg.stale
      /\ Len(lastEvent'.arg.points) > 0)
     => /\ customShapeName' = customShapeName
        /\ customShapePoints' = customShapePoints
        /\ targetPositions' = targetPositions
        /\ colors' = colors]_vars

\* no API key, a thrown error, a non-array answer, fewer than 3 numbers
Failed(arg) == arg.outcome \in {"nokey", "throw", "nonarray"} \/ arg.rawLen < 3

C4_AtomicOverride ==
  /\ []((customShapeName = NULL) <=> (customShapePoints = NULL))
  /\ [][(customShapeName' # customShapeName \/ customShapePoints' # customShapePoints)
        => \/ customShapeName' = NULL /\ customShapePoints' = NULL
           \/ /\ lastEvent'.op = "result"
              /\ Len(lastEvent'.arg.points) > 0
              /\ customShapeName' = Some(lastEvent'.arg.prompt)
              /\ customShapePoints' = Some(lastEvent'.arg.points)]_vars

\* the second of two results replaced the override of the first, after a
\* navigation in between
C4_Witness ==
  /\ lastEvent.op = "result"
  /\ lastEvent.arg.stale
  /\ statusTimers = 2
  /\ customShapeName = Some(lastEvent.arg.prompt)
  /\ customShapePoints = Some(lastEvent.arg.points)

\* C5: with 7 default shapes the index stays in 0..6; next() moves it to
\* (i+1) mod 7 and previous() to (i-1+7) mod 7, both clear the override, and
\* the active shape is then the default shape at the new index.
C5_Navigation ==
  /\ [](NumShapes = 7 /\ currentShapeIdx \in 0..6)
  /\ [][lastEvent'.op \in {"next", "previous"}
        => /\ currentShapeIdx' = IF lastEvent'.op = "next"
                                   THEN (currentShapeIdx + 1) % 7
                                   ELSE (currentShapeIdx - 1 + 7) % 7
           /\ customShapeName' = NULL
           /\ customShapePoints' = NULL
           /\ props'.targetPoints = DEFAULT_SHAPES[currentShapeIdx'].points
           /\ props'.color = NULL]_vars

\* next() at the last shape wrapped to the first, with a request still pending
C5_Witness ==
  /\ lastEvent.op = "next"
  /\ lastEvent.arg.before = 6
  /\ currentShapeIdx = 0
  /\ customShapePoints = NULL
  /\ inFlight # <<>>

RECURSIVE NextThenPrev(_, _)
NextThenPrev(i, n) == IF n = 0 THEN i ELSE NextThenPrev(PrevIdx(NextIdx(i)), n - 1)

\* C6: next() followed by previous(), any number of times, ends at the index it
\* started from; previous() right after next() restores the index.
C6_RoundTrip ==
  /\ [](\A n \in 0..MaxRepeat : NextThenPrev(currentShapeIdx, n) = currentShapeIdx)
  /\ [][lastEvent'.op = "previous" /\ lastEvent'.arg.afterNext
        => currentShapeIdx' = lastEvent.arg.before]_vars

\* previous() undid a next() that had wrapped from the last shape to the first
C6_Witness ==
  /\ lastEvent.op = "previous"
  /\ lastEvent.arg.afterNext
  /\ lastEvent.arg.before = 0
  /\ currentShapeIdx = 6

\* C7 as stated: next(), previous() and setCustom(name, points) each leave the
\* catalog, when called again with the same arguments, as the first call left it.
C7_EveryCallIdempotent ==
  [][lastEvent'.op \in {"next", "previous", "result"} /\ lastEvent'.arg.repeat
     => Catalog' = Catalog]_vars

ValidPrompts == {p \in Prompts : Trim(p) # <<>>}

\* C7 amended: setCustom(name, points) is idempotent; a repeated next() or
\* previous() keeps the override slot cleared but moves the index one more step.
C7_SetCustomIdempotent ==
  /\ [][lastEvent'.op = "result" /\ lastEvent'.arg.repeat => Catalog' = Catalog]_vars
  /\ [](\A p \in ValidPrompts : \A resp \in Responses :
          LET points == generateGeminiShape(TRUE, resp, PARTICLE_COUNT)
              once == SetCustom(Catalog, p, points)
          IN SetCustom(once, p, points) = once)
  /\ [][lastEvent'.op \in {"next", "previous"} /\ lastEvent'.arg.repeat
        => /\ currentShapeIdx' # currentShapeIdx
           /\ customShapeName' = customShapeName
           /\ customShapePoints' = customShapePoints]_vars

\* the same prompt answered with the same points a second time
C7_Witness ==
  /\ lastEvent.op = "result"
  /\ lastEvent.arg.repeat
  /\ statusTimers = 2

\* C8: only an integrator tick changes positions or velocities; next(),
\* previous() and a custom shape being set leave every entry of both as it was.
C8_ShapeChangeKeepsMotion ==
  [][lastEvent'.op # "tick" => positions' = positions /\ velocities' = velocities]_vars

\* a custom shape set while the particles were moving
C8_Witness ==
  /\ lastEvent.op = "result"
  /\ Len(lastEvent.arg.points) > 0
  /\ frames = 1
  /\ \A i \in Particles : Triple(velocities, i) # <<0, 0, 0>>
  /\ targetPositions[0] = lastEvent.arg.points[1].x

\* C9: with L > 0 points, particle i aims at point i mod L and takes its colour,
\* or the fallback colour when the point has none, for L below, at and above N.
C9_TargetMapping ==
  LET points == props.targetPoints
      L == Len(points)
      fallback == IF props.color = NULL THEN <<1000, 867, 0>> ELSE props.color.some
  IN L > 0 =>
       \A i \in Particles :
         LET p == points[(i % L) + 1]
         IN /\ Triple(targetPositions, i) = <<p.x, p.y, p.z>>
            /\ Triple(colors, i) = IF p.color # <<>> THEN p.color ELSE fallback

\* a shape of 2 uncoloured points on 3 particles: the third wraps to the first
C9_Witness ==
  /\ lastEvent.op = "shape"
  /\ Len(props.targetPoints) = 2
  /\ PARTICLE_COUNT = 3
  /\ frames > 0
  /\ Triple(targetPositions, 2) = Triple(targetPositions, 0)
  /\ Triple(targetPositions, 1) # Triple(targetPositions, 0)
  /\ Triple(colors, 2) = <<0, 800, 1000>>

\* C10: with no points every target is the origin and every colour the fallback
\* colour, and a tick still integrates every particle.
C10_EmptyShape ==
  /\ [](Len(props.targetPoints) = 0 =>
          \A n \in 0..(3 * PARTICLE_COUNT - 1) :
            /\ targetPositions[n] = 0
            /\ colors[n] = (IF props.color = NULL THEN <<1000, 867, 0>>
                            ELSE props.color.some)[(n % 3) + 1])
  /\ [][lastEvent'.op = "tick" /\ Len(props.targetPoints) = 0
        => \A i \in Particles : \A a \in 0..2 :
             /\ velocities'[3 * i + a] =
                  StepVelocity(i, lastEvent'.arg.isScatter, time', lastEvent'.arg.delta)[a + 1]
             /\ positions'[3 * i + a] = positions[3 * i + a] + velocities'[3 * i + a]]_vars

\* a Form tick on a shape without points moved every particle
C10_Witness ==
  /\ lastEvent.op = "tick"
  /\ ~lastEvent.arg.isScatter
  /\ props.targetPoints = <<>>
  /\ \A i \in Particles : Triple(velocities, i) # <<0, 0, 0>>

\* C11: positions, velocities, targetPositions and colors each keep the 3N
\* slots 0..3N-1 they were allocated with, through every tick, mode change,
\* motion update and shape change, and every velocity is 0 at the mount.
C11_ArraysFixed ==
  /\ [](/\ DOMAIN positions = 0..(3 * PARTICLE_COUNT - 1)
        /\ DOMAIN velocities = 0..(3 * PARTICLE_COUNT - 1)
        /\ DOMAIN targetPositions = 0..(3 * PARTICLE_COUNT - 1)
        /\ DOMAIN colors = 0..(3 * PARTICLE_COUNT - 1))
  /\ [](lastEvent.op = "mount" => \A n \in 0..(3 * PARTICLE_COUNT - 1) : velocities[n] = 0)
  /\ [][/\ DOMAIN positions' = DOMAIN positions
        /\ DOMAIN velocities' = DOMAIN velocities
        /\ DOMAIN targetPositions' = DOMAIN targetPositions
        /\ DOMAIN colors' = DOMAIN colors]_vars

\* a shape with more points than particles set after ticks in the Scatter
\* regime under motion
C11_Witness ==
  /\ lastEvent.op = "shape"
  /\ frames > 1
  /\ props.mode = "SCATTER"
  /\ props.motionIntensity = 100
  /\ Len(props.targetPoints) > PARTICLE_COUNT
  /\ \E n \in DOMAIN velocities : velocities[n] # 0

\* points of a returned sequence that carry the colour c
Coloured(points, c) == Cardinality({j \in DOMAIN points : points[j].color = c})

\* C12: called with a count > 0 every generator returns exactly count points;
\* of a present's points floor(0.15 count) are bow points and the rest box
\* points, of a snowman's floor(0.65 count) are body points and every one of the
\* count - floor(0.65 count) feature slots holds a point.
C12_ExactCount ==
  lastEvent.op = "return" /\ lastEvent.arg.count > 0 =>
    LET count == lastEvent.arg.count
        points == lastEvent.arg.points
        bow == (15 * count) \div 100
        body == (65 * count) \div 100
    IN /\ Len(points) = count
       /\ lastEvent.arg.name = "present" =>
            /\ Coloured(points, <<1000, 900, 200>>) = bow
            /\ \A j \in 1..count : (points[j].color = <<1000, 900, 200>>) <=> (j > count - bow)
       /\ lastEvent.arg.name = "snowman" =>
            /\ Coloured(points, <<950, 980, 1000>>) = body
            /\ \A j \in 1..count : (points[j].color = <<950, 980, 1000>>) <=> (j <= body)
            /\ Cardinality({j \in 1..count : j > body /\ points[j].color # <<>>})
                 = count - body

\* a present of 7 points: 6 on the box, then the one bow point
C12_Witness ==
  /\ lastEvent.op = "return"
  /\ lastEvent.arg.name = "present"
  /\ lastEvent.arg.count = 7
  /\ Len(lastEvent.arg.points) = 7
  /\ lastEvent.arg.points[7].color = <<1000, 900, 200>>
  /\ lastEvent.arg.points[6].color # <<1000, 900, 200>>

\* C13: called with a count of 0 or below every generator returns the empty
\* sequence, the present and the snowman with their floored shares included.
C13_NonPositiveCount ==
  lastEvent.op = "return" /\ lastEvent.arg.count <= 0 =>
    /\ lastEvent.arg.points = <<>>
    /\ Len(lastEvent.arg.points) = 0

\* a snowman of -3 points: the shares are floor(-1.95) = -2 and -1
C13_Witness ==
  /\ lastEvent.op = "return"
  /\ lastEvent.arg.name = "snowman"
  /\ lastEvent.arg.count = -3
  /\ BodyCount(-3) = -2
  /\ DetailsCount(-3) = -1
  /\ lastEvent.arg.points = <<>>

\* C16: every colour channel of every point a generator returns lies in [0, 1],
\* and so does every entry of the colors array once a default shape is shown.
C16_ColorRange ==
  /\ lastEvent.op \in {"return", "shown"} =>
       \A j \in DOMAIN lastEvent.arg.points : \A c \in 1..3 :
         /\ lastEvent.arg.points[j].color[c] >= 0
         /\ lastEvent.arg.points[j].color[c] <= 1000
  /\ \A n \in DOMAIN colors : colors[n] >= 0 /\ colors[n] <= 1000

\* a tree shown: a jittered green on the first particle
C16_Witness ==
  /\ lastEvent.op = "shown"
  /\ lastEvent.arg.name = "tree"
  /\ colors[0] = 100
  /\ colors[1] > 600
  /\ colors[1] < 800
  /\ colors[1] = lastEvent.arg.points[1].color[2]

\* |position - target|^2 of particle i
DistSq(pos, target, i) ==
  LET d == [a \in 0..2 |-> pos[3 * i + a] - target[3 * i + a]]
  IN d[0] * d[0] + d[1] * d[1] + d[2] * d[2]

\* C14: from rest, with a static target and no shimmer, no Form tick takes a
\* particle farther from its target than it was before the tick.
C14_MonotoneApproach ==
  [][lastEvent'.op = "tick" =>
       \A i \in Particles :
         DistSq(positions', targetPositions', i) <= DistSq(positions, targetPositions, i)]_vars

\* texts of the vision service that name no gesture
UnrecognisedTexts == {<<" ", " ">>, <<"p", "a", "l", "m">>}

\* C15: without a client, on a thrown error (no connection, rate limit), on a
\* response without text or with a text that names no gesture, the gesture is
\* NONE; a NONE result leaves the index, the override slot, the requested mode
\* and the four particle arrays as they were; the catalog changes on a gesture
\* result only when the gesture is POINTING_UP.
C15_NoGestureNoEffect ==
  [][lastEvent'.op = "gesture" =>
       /\ (\/ lastEvent'.arg.outcome \in {"nokey", "throw", "notext"}
           \/ lastEvent'.arg.text \in UnrecognisedTexts)
            => lastEvent'.arg.gesture = "NONE"
       /\ lastEvent'.arg.gesture = "NONE" =>
            /\ currentShapeIdx' = currentShapeIdx
            /\ customShapeName' = customShapeName
            /\ customShapePoints' = customShapePoints
            /\ mode' = mode
            /\ props'.mode = props.mode
            /\ positions' = positions
            /\ velocities' = velocities
            /\ targetPositions' = targetPositions
            /\ colors' = colors
       /\ Catalog' # Catalog => lastEvent'.arg.gesture = "POINTING_UP"]_vars

\* a thrown error answered a frame while a custom shape was shown in Scatter
C15_Witness ==
  /\ lastEvent.op = "gesture"
  /\ lastEvent.arg.outcome = "throw"
  /\ lastEvent.arg.gesture = "NONE"
  /\ customShapePoints # NULL
  /\ props.targetPoints = customShapePoints.some
  /\ mode = "SCATTER"
  /\ aiStatus = ""

\* C17: a tick adds the delta-scaled force to the velocity, multiplies the
\* velocity once by 0.92 (Scatter) or 0.85 (Form) whatever delta is, then adds
\* the damped velocity, not scaled by delta, to the position; with delta = 0
\* velocity' = factor * velocity, and a particle at rest under no force stays.
C17_IntegrationOrder ==
  [][lastEvent'.op = "tick" =>
       LET scatter == lastEvent'.arg.isScatter
           delta == lastEvent'.arg.delta
           factor == IF scatter THEN 92 ELSE 85
       IN \A i \in Particles :
            LET forced == IF scatter
                            THEN ScatterForce(Triple(positions, i), Triple(velocities, i),
                                              time', delta)
                            ELSE FormForce(Triple(positions, i), Triple(velocities, i),
                                           Triple(targetPositions, i), time', delta)
            IN \A a \in 0..2 :
                 LET n == 3 * i + a
                 IN /\ velocities'[n] = Quot(forced[a + 1] * factor, 100)
                    /\ positions'[n] = positions[n] + velocities'[n]
                    /\ delta = 0 => velocities'[n] = Quot(velocities[n] * factor, 100)
                    /\ (velocities[n] = 0 /\ forced[a + 1] = 0) => positions'[n] = positions[n]]_vars

\* a tick of length 0 in the Scatter regime on particles already moving
C17_Witness ==
  /\ lastEvent.op = "tick"
  /\ lastEvent.arg.delta = 0
  /\ lastEvent.arg.isScatter
  /\ frames = 2
  /\ time = 16
  /\ \A i \in Particles : Triple(velocities, i) # <<0, 0, 0>>

\* C18: for a flat array of n numbers the shape service returns the first
\* min(count, floor(n / 3)) whole triples, in order and without a colour; for a
\* non-array answer or a thrown error it returns the empty sequence.
C18_FlatArrayToPoints ==
  [][lastEvent'.op = "result" =>
       LET raw == lastEvent'.arg.raw
           points == lastEvent'.arg.points
           whole == Len(raw) \div 3
       IN IF lastEvent'.arg.outcome = "array"
            THEN /\ Len(points) = IF PARTICLE_COUNT < whole THEN PARTICLE_COUNT ELSE whole
                 /\ \A j \in 0..(Len(points) - 1) :
                      points[j + 1] = [x |-> raw[3 * j + 1], y |-> raw[3 * j + 2],
                                      z |-> raw[3 * j + 3], color |-> <<>>]
            ELSE points = <<>>]_vars

\* an answer of one point more than asked for and one number more: both dropped
C18_Witness ==
  /\ lastEvent.op = "result"
  /\ lastEvent.arg.outcome = "array"
  /\ Len(lastEvent.arg.raw) = 3 * PARTICLE_COUNT + 4
  /\ Len(lastEvent.arg.points) = PARTICLE_COUNT
  /\ customShapePoints = Some(lastEvent.arg.points)

\* C19: at most one shape request is in flight, and aiLoading is true exactly
\* while one is, whether requests start from the Genie button or from Enter.
C19_SingleRequest ==
  /\ Len(inFlight) <= 1
  /\ aiLoading <=> inFlight # <<>>

\* C20: a gesture result that arrives while the camera is off, POINTING_UP from
\* a frame submitted while it was on included, neither advances the index nor
\* clears the override slot.
C20_GestureOnlyWhileActive ==
  [][lastEvent'.op = "gesture" /\ ~isCameraActive
     => /\ currentShapeIdx' = currentShapeIdx
        /\ customShapeName' = customShapeName
        /\ customShapePoints' = customShapePoints]_vars

\* C21: a tick that runs while the camera is inactive, or active with no sample
\* reported since it was activated, is handed motion intensity 0, so with
\* requested mode Form its regime is Form.
C21_NoStaleMotion ==
  [][lastEvent'.op = "tick" /\ (~isCameraActive \/ prevFrameRef = NULL)
       => /\ props.motionIntensity = 0
          /\ props.mode = "FORM" => ~lastEvent'.arg.isScatter]_vars

====
